---- MODULE Spec2Model ----
(***************************************************************************)
(* GPT Proxy: the two variants of the service kept in the repository,      *)
(*   "main"      = src/main.py                 (version 3.1-outputstring)  *)
(*   "gpt_proxy" = src/gpt-proxy/app/main.py   (version 3.5-pdf)           *)
(* Each request is followed through its handler, one action per step of    *)
(* the handler that can end the request.                                   *)
(*                                                                         *)
(* Strings whose length matters (base64 payloads, page texts, provider     *)
(* error texts) are kept in run-length form: a sequence of runs            *)
(* [c |-> character, n |-> repetitions], adjacent runs holding different   *)
(* characters, so that the real limits (32 MiB, 120,000 characters) are    *)
(* the ones the model compares against.                                    *)
(***************************************************************************)
EXTENDS Integers, Sequences, FiniteSets, TLC

None == "None"

(***************************************************************************)
(* Configuration                                                           *)
(***************************************************************************)
MODEL == "gpt-4.1-mini"
MAX_REQ_BYTES == 32 * 1024 * 1024
MAX_PDF_TEXT_CHARS == 120000

Apps == {"main", "gpt_proxy"}
Reqs == {1, 2}

(***************************************************************************)
(* Bounds of the model                                                     *)
(***************************************************************************)
MaxImages == 2
MaxPages == 3
ShortMessageLen == 200

(***************************************************************************)
(* Run-length strings                                                      *)
(***************************************************************************)
R(c, n) == [c |-> c, n |-> n]

\* len(s)
RECURSIVE StrLen(_)
StrLen(s) ==
    IF s = <<>> THEN 0 ELSE Head(s).n + StrLen(Tail(s))

\* the canonical form of a sequence of runs: empty runs dropped, equal
\* neighbours merged
RECURSIVE Canon(_)
Canon(s) ==
    IF s = <<>> THEN <<>>
    ELSE LET h == Head(s)
             r == Canon(Tail(s))
         IN  IF h.n = 0 THEN r
             ELSE IF r # <<>> /\ Head(r).c = h.c
                  THEN <<R(h.c, h.n + Head(r).n)>> \o Tail(r)
                  ELSE <<h>> \o r

\* a + b
Concat(a, b) == Canon(a \o b)

\* the characters str.strip() removes (those the inputs of the model use)
Whitespace == {" ", "\n", "\t"}

RECURSIVE LStrip(_)
LStrip(s) ==
    IF s # <<>> /\ Head(s).c \in Whitespace THEN LStrip(Tail(s)) ELSE s

RECURSIVE RStrip(_)
RStrip(s) ==
    IF s # <<>> /\ s[Len(s)].c \in Whitespace
    THEN RStrip(SubSeq(s, 1, Len(s) - 1))
    ELSE s

\* s.strip()
Strip(s) == RStrip(LStrip(s))

\* s[:k]
RECURSIVE Take(_, _)
Take(s, k) ==
    IF k <= 0 \/ s = <<>> THEN <<>>
    ELSE IF Head(s).n <= k
         THEN <<Head(s)>> \o Take(Tail(s), k - Head(s).n)
         ELSE <<R(Head(s).c, k)>>

\* sep.join(parts)
RECURSIVE Join(_, _)
Join(sep, parts) ==
    IF parts = <<>> THEN <<>>
    ELSE IF Len(parts) = 1 THEN parts[1]
         ELSE Concat(Concat(parts[1], sep), Join(sep, Tail(parts)))

(***************************************************************************)
(* base64.b64decode(s, validate=True) and imghdr.what(None, h=...)         *)
(***************************************************************************)
\* The characters of the base64 alphabet the inputs use, with their values.
B64Alphabet == {"A", "Q", "k", "0"}
B64Value(c) ==
    CASE c = "A" -> 0
      [] c = "Q" -> 16
      [] c = "k" -> 36
      [] c = "0" -> 52
B64Pad == "="
\* Characters outside ASCII: str.encode('ascii') fails on them.
NonAscii == {"é"}

BinasciiError == [kind |-> "binascii.Error", len |-> 0, head |-> <<>>]
ValueError == [kind |-> "ValueError", len |-> 0, head |-> <<>>]
Bytes(len, head) == [kind |-> "bytes", len |-> len, head |-> head]

\* the number of leading runs of s that hold alphabet characters
RECURSIVE DataRuns(_)
DataRuns(s) ==
    IF s # <<>> /\ Head(s).c \in B64Alphabet THEN 1 + DataRuns(Tail(s)) ELSE 0

\* the first k characters of s, one by one
RECURSIVE Chars(_, _)
Chars(s, k) ==
    IF k <= 0 \/ s = <<>> THEN <<>>
    ELSE IF Head(s).n = 1 THEN <<Head(s).c>> \o Chars(Tail(s), k - 1)
         ELSE <<Head(s).c>> \o Chars(<<R(Head(s).c, Head(s).n - 1)>> \o Tail(s), k - 1)

\* the bytes the first (possibly partial) quad of data characters decodes to
HeadBytes(data) ==
    LET q == Chars(data, 4)
        v(i) == B64Value(q[i])
    IN  (IF Len(q) >= 2 THEN <<v(1) * 4 + v(2) \div 16>> ELSE <<>>)
        \o (IF Len(q) >= 3 THEN <<(v(2) % 16) * 16 + v(3) \div 4>> ELSE <<>>)
        \o (IF Len(q) >= 4 THEN <<(v(3) % 4) * 64 + v(4)>> ELSE <<>>)

\* len(decoded) for d data characters: three bytes per quad, and one or two
\* for a closing quad of two or three characters
DecodedLen(d) ==
    3 * (d \div 4) + (IF d % 4 = 2 THEN 1 ELSE IF d % 4 = 3 THEN 2 ELSE 0)

\* base64.b64decode(s, validate=True) on a str, as binascii.a2b_base64 does
\* it in strict mode: a character outside ASCII is a ValueError; a leading
\* pad, a character outside the alphabet, anything after the padding, a
\* single data character in the last quad, or missing or surplus padding
\* of a partial quad is a binascii.Error.
b64decode(s) ==
    IF \E i \in DOMAIN s : s[i].c \in NonAscii THEN ValueError
    ELSE IF s = <<>> THEN Bytes(0, <<>>)
    ELSE IF s[1].c = B64Pad THEN BinasciiError
    ELSE LET k == DataRuns(s)
             data == SubSeq(s, 1, k)
             rest == SubSeq(s, k + 1, Len(s))
             d == StrLen(data)
             ok == Bytes(DecodedLen(d), HeadBytes(data))
         IN  IF rest = <<>>
             THEN IF d % 4 = 0 THEN ok ELSE BinasciiError
             ELSE IF rest[1].c # B64Pad \/ Len(rest) > 1 THEN BinasciiError
             ELSE CASE d % 4 = 0 -> ok
                    [] d % 4 = 1 -> BinasciiError
                    [] d % 4 = 2 -> IF rest[1].n = 2 THEN ok ELSE BinasciiError
                    [] d % 4 = 3 -> IF rest[1].n = 1 THEN ok ELSE BinasciiError

\* imghdr.what(None, h): of its tests only test_bmp (h.startswith(b'BM'))
\* can match bytes decoded from the alphabet above.
imghdr_what(h) ==
    IF Len(h) >= 2 /\ h[1] = 66 /\ h[2] = 77 THEN "bmp" ELSE None

\* not img.image_b64 or not img.image_b64.strip()
IsBlank(s) == s = <<>> \/ Strip(s) = <<>>

\* img.mime is None
MimeIsNone(m) == m = None

\* not img.mime
MimeAbsent(m) == m = None \/ m = ""

\* lines 123-126: the MIME type the data URL carries
ResolveMime(m, img_bytes) ==
    IF MimeAbsent(m)
    THEN LET fmt == imghdr_what(img_bytes.head)
         IN  IF fmt # None THEN <<"image/", fmt>> ELSE <<"application/octet-stream">>
    ELSE <<m>>

\* f"data:{img.mime};base64,{img.image_b64}": the four pieces, in order
DataUrl(mime, image_b64) ==
    [scheme |-> "data:", mime |-> mime, sep |-> ";base64,", data |-> image_b64]

InputText(t) == [type |-> "input_text", text |-> t]
InputImage(url) == [type |-> "input_image", image_url |-> url]

\* total_bytes >= MAX_REQ_BYTES
OverLimitInclusive(total) == total >= MAX_REQ_BYTES

\* total_bytes > MAX_REQ_BYTES
OverLimit(total) == total > MAX_REQ_BYTES

(***************************************************************************)
(* read_pdf_text                                                           *)
(***************************************************************************)
\* What pypdf gives for one page: page.extract_text() returns a string or
\* None, or raises.
PageText(t) == [kind |-> "text", t |-> t]
PageNone == [kind |-> "none", t |-> <<>>]
PageRaise == [kind |-> "raise", t |-> <<>>]

\* "\n\n"
PAGE_SEP == <<R("\n", 2)>>

\* "\n\n[...texto recortado por tamaño...]"
TRUNCATION_MARKER ==
    <<R("\n", 2), R("[", 1), R(".", 3),
      R("t", 1), R("e", 1), R("x", 1), R("t", 1), R("o", 1), R(" ", 1),
      R("r", 1), R("e", 1), R("c", 1), R("o", 1), R("r", 1), R("t", 1),
      R("a", 1), R("d", 1), R("o", 1), R(" ", 1),
      R("p", 1), R("o", 1), R("r", 1), R(" ", 1),
      R("t", 1), R("a", 1), R("m", 1), R("a", 1), R("ñ", 1), R("o", 1),
      R(".", 3), R("]", 1)>>

\* page.extract_text() or ""
OrEmpty(page) == IF page.kind = "text" THEN page.t ELSE <<>>

\* parts.append(t) for every page
KeepAnyPage(t) == TRUE

\* if t.strip(): parts.append(t)
KeepPage(t) == Strip(t) # <<>>

\* the loop over reader.pages: the texts appended to parts, in page order
RECURSIVE PageParts(_)
PageParts(pages) ==
    IF pages = <<>> THEN <<>>
    ELSE LET t == OrEmpty(Head(pages))
         IN  (IF KeepPage(t) THEN <<t>> ELSE <<>>) \o PageParts(Tail(pages))

\* "\n\n".join(parts).strip()
JoinedText(parts) == Strip(Join(PAGE_SEP, parts))

\* the cut applied from the limit on: len(text) >= MAX_PDF_TEXT_CHARS
TruncateFromLimit(text) ==
    IF StrLen(text) >= MAX_PDF_TEXT_CHARS
    THEN Concat(Take(text, MAX_PDF_TEXT_CHARS), TRUNCATION_MARKER)
    ELSE text

\* text[:MAX_PDF_TEXT_CHARS] + marker when len(text) > MAX_PDF_TEXT_CHARS
Truncate(text) ==
    IF StrLen(text) > MAX_PDF_TEXT_CHARS
    THEN Concat(Take(text, MAX_PDF_TEXT_CHARS), TRUNCATION_MARKER)
    ELSE text

\* PdfReader(...) or a page's extract_text() raises
ParseRaises(pdf) ==
    pdf.reader_raises \/ \E i \in DOMAIN pdf.pages : pdf.pages[i].kind = "raise"

\* except Exception as e: return str(e)
OnParseErrorMessage == <<R("parse error", 1)>>

\* except Exception: return ""
OnParseError == <<>>

read_pdf_text(pdf) ==
    IF ParseRaises(pdf) THEN OnParseError
    ELSE LET text == JoinedText(PageParts(pdf.pages))
         IN  IF text = <<>> THEN <<>> ELSE Truncate(text)

(***************************************************************************)
(* Requests                                                                *)
(***************************************************************************)
\* The number of data characters whose decoding is one byte over the limit
\* (MAX_REQ_BYTES + 1 is a multiple of three).
OverChars == 4 * ((MAX_REQ_BYTES + 1) \div 3)
HalfChars == 4 * (MAX_REQ_BYTES \div 6)

B64_EMPTY == <<>>
B64_SPACES == <<R(" ", 2)>>
B64_BMP == <<R("Q", 1), R("k", 1), R("0", 1), R("A", 1)>>
B64_TWO_BYTES == <<R("A", 3), R("=", 1)>>
B64_BAD_PADDING == <<R("A", 2), R("=", 1)>>
B64_PERCENT == <<R("A", 1), R("%", 1), R("A", 2)>>
B64_NON_ASCII == <<R("A", 3), R("é", 1)>>
B64_HALF == <<R("A", HalfChars)>>
B64_AT_LIMIT == <<R("A", OverChars - 1), R("=", 1)>>
B64_OVER_LIMIT == <<R("A", OverChars)>>

Base64Strings ==
    {B64_EMPTY, B64_SPACES, B64_BMP, B64_TWO_BYTES, B64_BAD_PADDING,
     B64_PERCENT, B64_NON_ASCII, B64_HALF, B64_AT_LIMIT, B64_OVER_LIMIT}
Mimes == {None, "", "image/png"}
Texts == {"hola", ""}

\* class ImageInput; mime is read only for an entry that decodes, so the
\* other entries come without one
ImageInputs(strings, mimes) ==
    {img \in [image_b64 : strings, mime : mimes] :
        (IsBlank(img.image_b64) \/ b64decode(img.image_b64).kind # "bytes")
            => img.mime = None}

SeqsUpTo(S, n) == UNION {[1..k -> S] : k \in 0..n}

\* class InferenceIn: images is None or a list
ImageLists(strings, mimes, n) ==
    {[given |-> FALSE, list |-> <<>>]}
    \cup {[given |-> TRUE, list |-> l] :
            l \in SeqsUpTo(ImageInputs(strings, mimes), n)}

InferRequests(texts, strings, mimes, n) ==
    {[kind |-> "infer", text |-> t, images |-> i] :
        t \in texts, i \in ImageLists(strings, mimes, n)}

PAGE_BLANK == PageText(<<R(" ", 1), R("\n", 1)>>)
PAGE_EMPTY == PageText(<<>>)
PAGE_B == PageText(<<R("b", 1)>>)
PAGE_PADDED == PageText(<<R(" ", 1), R("b", 1), R("\n", 1)>>)
PAGE_HALF == PageText(<<R("a", MAX_PDF_TEXT_CHARS \div 2 - 1)>>)
PAGE_AT_LIMIT == PageText(<<R("a", MAX_PDF_TEXT_CHARS)>>)
PAGE_AT_LIMIT_PADDED == PageText(<<R(" ", 1), R("a", MAX_PDF_TEXT_CHARS)>>)

Pages ==
    {PageNone, PageRaise, PAGE_EMPTY, PAGE_BLANK, PAGE_B, PAGE_PADDED,
     PAGE_HALF, PAGE_AT_LIMIT, PAGE_AT_LIMIT_PADDED}

Pdfs(pages, n) ==
    {[reader_raises |-> TRUE, pages |-> <<>>]}
    \cup {[reader_raises |-> FALSE, pages |-> p] : p \in SeqsUpTo(pages, n)}

ContentTypes == {"application/pdf", "application/octet-stream", "text/plain"}
BodySizes == {1024, MAX_REQ_BYTES, MAX_REQ_BYTES + 1}

\* an upload: its declared content type, len(pdf_bytes), and what pypdf
\* makes of the bytes
SummarizeRequests(types, sizes, pages, n) ==
    {[kind |-> "summarize_pdf", content_type |-> c, nbytes |-> b, pdf |-> d] :
        c \in types, b \in sizes, d \in Pdfs(pages, n)}

HealthRequest == [kind |-> "health"]
Unused == [kind |-> "unused"]

\* the routes of each variant: src/main.py has no /summarize_pdf
Requests(a) ==
    {HealthRequest}
    \cup InferRequests(Texts, Base64Strings, Mimes, MaxImages)
    \cup (IF a = "gpt_proxy"
          THEN SummarizeRequests(ContentTypes, BodySizes, Pages, MaxPages)
          ELSE {})

\* the requests of the runs that hold two requests at once
ConcRequests(a) ==
    {HealthRequest}
    \cup InferRequests({"hola"}, {B64_BMP, B64_HALF, B64_PERCENT}, {None},
                       MaxImages)
    \cup (IF a = "gpt_proxy"
          THEN SummarizeRequests({"application/pdf", "text/plain"},
                                 {1024, MAX_REQ_BYTES + 1},
                                 {PAGE_B, PAGE_BLANK}, 1)
          ELSE {})

\* What the completion API does with one call: client.responses.create
\* returns a response with output_text, or raises with a message.
ProviderErrorTexts ==
    {<<R("x", 20)>>, <<R("x", ShortMessageLen + 1)>>, <<R("x", 5000)>>}
ProviderOutcomes ==
    {[ok |-> TRUE, text |-> <<R(" ", 1), R("y", 30)>>]}
    \cup {[ok |-> FALSE, text |-> e] : e \in ProviderErrorTexts}
NoOutcome == [ok |-> FALSE, text |-> <<>>]

(***************************************************************************)
(* Responses                                                               *)
(***************************************************************************)
\* detail: a fixed message, followed by the text of the exception where the
\* handler interpolates it ({e})
Detail(msg, e) == [msg |-> msg, exc |-> e]
NoBody == [none |-> TRUE]
HTTPException(status_code, detail) ==
    [status |-> status_code, detail |-> detail, body |-> NoBody]
Ok(body) == [status |-> 200, detail |-> Detail("", <<>>), body |-> body]
NoResponse == [status |-> 0, detail |-> Detail("", <<>>), body |-> NoBody]
\* the process is not there to answer
ConnectionRefused ==
    [status |-> 0, detail |-> Detail("connection refused", <<>>), body |-> NoBody]

\* os.getenv("OPENAI_API_KEY") is missing or empty at import (src/main.py)
ImportRaises(a, key) == a = "main" /\ ~key

\* get_openai_client raises HTTPException(500)
ClientRaises(key) == ~key
NoKeyError ==
    HTTPException(500, Detail("OPENAI_API_KEY no está configurada en Cloud Run", <<>>))

\* the guard of infer: the gpt-proxy variant asks for the client first, the
\* src/main.py variant uses the client built at import
InferGuardFails(a, key) == a = "gpt_proxy" /\ ClientRaises(key)

\* the two variants differ by the full stop that ends the message
BadBase64Error(a) ==
    HTTPException(400, Detail(IF a = "gpt_proxy"
                              THEN "Una de las imágenes no es base64 válida"
                              ELSE "Una de las imágenes no es base64 válida.", <<>>))
TooMuchDataError(a) ==
    HTTPException(413, Detail(IF a = "gpt_proxy"
                              THEN "Demasiados datos (~>32 MiB en total)"
                              ELSE "Demasiados datos (~>32 MiB en total).", <<>>))
\* except Exception as e: HTTPException(500, f"Inference error: {e}")
InferenceError(e) == HTTPException(500, Detail("Inference error: ", e))
\* str(e) of the ValueError b64decode raises
AsciiOnlyText == <<R("string argument should contain only ASCII characters", 1)>>

\* return {"output": resp.output_text}; src/main.py returns the string
InferBody(a, output_text) ==
    IF a = "gpt_proxy" THEN [output |-> output_text] ELSE [raw |-> output_text]

AcceptedTypesPdfOnly == {"application/pdf"}
AcceptedTypes == {"application/pdf", "application/octet-stream"}
NotPdfError ==
    HTTPException(400, Detail("El archivo debe ser PDF (application/pdf)", <<>>))
PdfTooBigError ==
    HTTPException(413, Detail("PDF demasiado grande (~>32 MiB)", <<>>))
NoTextError ==
    HTTPException(400, Detail("No pude extraer texto del PDF (puede ser escaneado / solo imágenes).", <<>>))
SummarizeError(e) == HTTPException(500, Detail("Summarize error: ", e))
\* the prompt: the fixed instruction followed by the text
Prompt(t) ==
    [instruction |-> "Resume el siguiente documento en EXACTAMENTE 1 párrafo, en español, claro y directo. No uses viñetas ni listas.\n\nDOCUMENTO:\n",
     text |-> t]

\* the flag computed from the name of the variable, not from its value
HealthBodyFlagSet(a, key, static_index, root_index) ==
    IF a = "gpt_proxy"
    THEN [status |-> "ok", model |-> MODEL, has_openai_key |-> TRUE,
          base_dir |-> "BASE_DIR", static_dir |-> "STATIC_DIR",
          static_index_exists |-> static_index, root_index_exists |-> root_index]
    ELSE [status |-> "ok", model |-> MODEL]

\* the body of GET /health
HealthBody(a, key, static_index, root_index) ==
    IF a = "gpt_proxy"
    THEN [status |-> "ok", model |-> MODEL, has_openai_key |-> key,
          base_dir |-> "BASE_DIR", static_dir |-> "STATIC_DIR",
          static_index_exists |-> static_index, root_index_exists |-> root_index]
    ELSE [status |-> "ok", model |-> MODEL]

(***************************************************************************)
(* State                                                                   *)
(***************************************************************************)
VARIABLES
    app,          \* the variant that is deployed
    has_key,      \* bool(os.getenv("OPENAI_API_KEY"))
    server,       \* "importing", "serving" or "failed"
    req,          \* the request in each slot
    pc,           \* where each request's handler is
    idx,          \* infer: the image the loop is at (1-based)
    total_bytes,  \* infer: total_bytes
    content,      \* infer: content
    text,         \* summarize_pdf: text
    body_read,    \* summarize_pdf: file.read() has returned
    parsed,       \* summarize_pdf: read_pdf_text has been called
    sent,         \* the input of the completion call, once it is made
    outcome,      \* what the completion call did
    response      \* the response, once the handler has ended

vars == <<app, has_key, server, req, pc, idx, total_bytes, content, text,
          body_read, parsed, sent, outcome, response>>

NotSent == [made |-> FALSE, content |-> <<>>]

InitLocals ==
    /\ server = "importing"
    /\ pc = [r \in Reqs |-> IF req[r] = Unused THEN "unused" ELSE "received"]
    /\ idx = [r \in Reqs |-> 0]
    /\ total_bytes = [r \in Reqs |-> 0]
    /\ content = [r \in Reqs |-> <<>>]
    /\ text = [r \in Reqs |-> <<>>]
    /\ body_read = [r \in Reqs |-> FALSE]
    /\ parsed = [r \in Reqs |-> FALSE]
    /\ sent = [r \in Reqs |-> NotSent]
    /\ outcome = [r \in Reqs |-> NoOutcome]
    /\ response = [r \in Reqs |-> NoResponse]

\* one request
Init ==
    /\ app \in Apps
    /\ has_key \in BOOLEAN
    /\ \E q \in Requests(app) : req = [r \in Reqs |-> IF r = 1 THEN q ELSE Unused]
    /\ InitLocals

\* two requests in flight
InitConc ==
    /\ app \in Apps
    /\ has_key \in BOOLEAN
    /\ req \in [Reqs -> ConcRequests(app)]
    /\ InitLocals

(***************************************************************************)
(* Steps                                                                   *)
(***************************************************************************)
Respond(r, resp) ==
    /\ response' = [response EXCEPT ![r] = resp]
    /\ pc' = [pc EXCEPT ![r] = "done"]

Goto(r, label) ==
    /\ pc' = [pc EXCEPT ![r] = label]
    /\ UNCHANGED response

\* the module is imported: src/main.py raises RuntimeError without a key
ModuleImport ==
    /\ server = "importing"
    /\ server' = IF ImportRaises(app, has_key) THEN "failed" ELSE "serving"
    /\ UNCHANGED <<app, has_key, req, pc, idx, total_bytes, content, text,
                   body_read, parsed, sent, outcome, response>>

\* no application came up: the request gets no HTTP response
Refused(r) ==
    /\ server = "failed"
    /\ pc[r] = "received"
    /\ Respond(r, ConnectionRefused)
    /\ UNCHANGED <<app, has_key, server, req, idx, total_bytes, content, text,
                   body_read, parsed, sent, outcome>>

\* GET /health
Health(r) ==
    /\ server = "serving"
    /\ pc[r] = "received"
    /\ req[r].kind = "health"
    /\ \E static_index \in BOOLEAN, root_index \in BOOLEAN :
          Respond(r, Ok(HealthBody(app, has_key, static_index, root_index)))
    /\ UNCHANGED <<app, has_key, server, req, idx, total_bytes, content, text,
                   body_read, parsed, sent, outcome>>

\* POST /infer, up to the loop over the images
InferBegin(r) ==
    /\ server = "serving"
    /\ pc[r] = "received"
    /\ req[r].kind = "infer"
    /\ IF InferGuardFails(app, has_key)
       THEN /\ Respond(r, NoKeyError)
            /\ UNCHANGED <<content, total_bytes, idx>>
       ELSE /\ content' = [content EXCEPT ![r] = <<InputText(req[r].text)>>]
            /\ total_bytes' = [total_bytes EXCEPT ![r] = 0]
            /\ idx' = [idx EXCEPT ![r] = 1]
            /\ Goto(r, "images")
    /\ UNCHANGED <<app, has_key, server, req, text, body_read, parsed, sent,
                   outcome>>

RECURSIVE SumOver(_, _)
SumOver(f, S) ==
    IF S = {} THEN 0
    ELSE LET x == CHOOSE y \in S : TRUE IN f[x] + SumOver(f, S \ {x})

\* a total kept in one module-level counter for all the requests
AddBytesShared(r, n) == SumOver(total_bytes, Reqs) + n

\* total_bytes += len(img_bytes)
AddBytes(r, n) == total_bytes[r] + n

\* content.append({"type": "input_image", "image_url": data_url})
AppendImage(c, img, img_bytes) ==
    Append(c, InputImage(DataUrl(ResolveMime(img.mime, img_bytes), img.image_b64)))

\* if payload.images: the loop has an image left
HasImage(q, i) == q.images.given /\ i <= Len(q.images.list)

\* POST /infer: one turn of the loop over payload.images
InferImage(r) ==
    /\ pc[r] = "images"
    /\ HasImage(req[r], idx[r])
    /\ LET img == req[r].images.list[idx[r]]
           img_bytes == b64decode(img.image_b64)
           total == AddBytes(r, img_bytes.len)
       IN  IF IsBlank(img.image_b64)
           THEN /\ idx' = [idx EXCEPT ![r] = @ + 1]
                /\ Goto(r, "images")
                /\ UNCHANGED <<total_bytes, content>>
           ELSE IF img_bytes.kind = "binascii.Error"
           THEN /\ Respond(r, BadBase64Error(app))
                /\ UNCHANGED <<idx, total_bytes, content>>
           ELSE IF img_bytes.kind = "ValueError"
           THEN /\ Respond(r, InferenceError(AsciiOnlyText))
                /\ UNCHANGED <<idx, total_bytes, content>>
           ELSE IF OverLimit(total)
           THEN /\ total_bytes' = [total_bytes EXCEPT ![r] = total]
                /\ Respond(r, TooMuchDataError(app))
                /\ UNCHANGED <<idx, content>>
           ELSE /\ total_bytes' = [total_bytes EXCEPT ![r] = total]
                /\ content' = [content EXCEPT ![r] = AppendImage(@, img, img_bytes)]
                /\ idx' = [idx EXCEPT ![r] = @ + 1]
                /\ Goto(r, "images")
    /\ UNCHANGED <<app, has_key, server, req, text, body_read, parsed, sent,
                   outcome>>

\* POST /infer: client.responses.create and the response
InferCall(r) ==
    /\ pc[r] = "images"
    /\ ~HasImage(req[r], idx[r])
    /\ \E o \in ProviderOutcomes :
          /\ outcome' = [outcome EXCEPT ![r] = o]
          /\ Respond(r, IF o.ok THEN Ok(InferBody(app, o.text))
                                ELSE InferenceError(o.text))
    /\ sent' = [sent EXCEPT ![r] = [made |-> TRUE, content |-> content[r]]]
    /\ UNCHANGED <<app, has_key, server, req, idx, total_bytes, content, text,
                   body_read, parsed>>

\* POST /summarize_pdf: the check of file.content_type
SummarizeValidate(r) ==
    /\ server = "serving"
    /\ pc[r] = "received"
    /\ req[r].kind = "summarize_pdf"
    /\ IF req[r].content_type \notin AcceptedTypes
       THEN Respond(r, NotPdfError)
       ELSE Goto(r, "read")
    /\ UNCHANGED <<app, has_key, server, req, idx, total_bytes, content, text,
                   body_read, parsed, sent, outcome>>

\* pdf_bytes = await file.read() and the size check
SummarizeRead(r) ==
    /\ pc[r] = "read"
    /\ body_read' = [body_read EXCEPT ![r] = TRUE]
    /\ IF OverLimit(req[r].nbytes)
       THEN Respond(r, PdfTooBigError)
       ELSE Goto(r, "extract")
    /\ UNCHANGED <<app, has_key, server, req, idx, total_bytes, content, text,
                   parsed, sent, outcome>>

\* text = read_pdf_text(pdf_bytes) and the check of the text
SummarizeExtract(r) ==
    /\ pc[r] = "extract"
    /\ parsed' = [parsed EXCEPT ![r] = TRUE]
    /\ text' = [text EXCEPT ![r] = read_pdf_text(req[r].pdf)]
    /\ IF text'[r] = <<>>
       THEN Respond(r, NoTextError)
       ELSE Goto(r, "client")
    /\ UNCHANGED <<app, has_key, server, req, idx, total_bytes, content,
                   body_read, sent, outcome>>

\* client = get_openai_client()
SummarizeClient(r) ==
    /\ pc[r] = "client"
    /\ IF ClientRaises(has_key)
       THEN Respond(r, NoKeyError)
       ELSE Goto(r, "call")
    /\ UNCHANGED <<app, has_key, server, req, idx, total_bytes, content, text,
                   body_read, parsed, sent, outcome>>

\* client.responses.create and the response
SummarizeCall(r) ==
    /\ pc[r] = "call"
    /\ \E o \in ProviderOutcomes :
          /\ outcome' = [outcome EXCEPT ![r] = o]
          /\ Respond(r, IF o.ok THEN Ok([summary |-> Strip(o.text)])
                                ELSE SummarizeError(o.text))
    /\ sent' = [sent EXCEPT ![r] =
                    [made |-> TRUE, content |-> <<InputText(Prompt(text[r]))>>]]
    /\ UNCHANGED <<app, has_key, server, req, idx, total_bytes, content, text,
                   body_read, parsed>>

Next ==
    \/ ModuleImport
    \/ \E r \in Reqs : Refused(r)
    \/ \E r \in Reqs : Health(r)
    \/ \E r \in Reqs : InferBegin(r)
    \/ \E r \in Reqs : InferImage(r)
    \/ \E r \in Reqs : InferCall(r)
    \/ \E r \in Reqs : SummarizeValidate(r)
    \/ \E r \in Reqs : SummarizeRead(r)
    \/ \E r \in Reqs : SummarizeExtract(r)
    \/ \E r \in Reqs : SummarizeClient(r)
    \/ \E r \in Reqs : SummarizeCall(r)

Spec == Init /\ [][Next]_vars
SpecConc == InitConc /\ [][Next]_vars

(***************************************************************************)
(* Vocabulary of the properties                                            *)
(***************************************************************************)
Done(r) == pc[r] = "done"
Served(r, kind) == server = "serving" /\ req[r].kind = kind /\ Done(r)

\* the images of a request, an absent list being no image
ImagesOf(q) == IF q.images.given THEN q.images.list ELSE <<>>

\* the entry is not empty and not whitespace-only
NonBlank(img) == \E i \in DOMAIN img.image_b64 : img.image_b64[i].c \notin Whitespace
\* the entry is valid strict base64
ValidBase64(img) == b64decode(img.image_b64).kind = "bytes"
\* an entry the loop accepts or skips
Harmless(img) == ~NonBlank(img) \/ ValidBase64(img)

\* the cumulative decoded byte length of the first k entries
RECURSIVE Cumulative(_, _)
Cumulative(list, k) ==
    IF k = 0 THEN 0
    ELSE Cumulative(list, k - 1)
         + (IF NonBlank(list[k]) /\ ValidBase64(list[k])
            THEN b64decode(list[k].image_b64).len ELSE 0)

\* entry k pushes the running total over the limit, the entries up to it
\* being decodable
Exceeds(list, k) ==
    /\ \A j \in 1..k : Harmless(list[j])
    /\ NonBlank(list[k])
    /\ Cumulative(list, k) > 32 * 1024 * 1024
\* entry k is not valid base64
Invalid(list, k) == NonBlank(list[k]) /\ ~ValidBase64(list[k])

Least(S) == CHOOSE k \in S : \A j \in S : k <= j
\* the first entry that pushes the total over the limit, 0 if none does
OverflowIndex(list) ==
    LET S == {k \in DOMAIN list : Exceeds(list, k)}
    IN  IF S = {} THEN 0 ELSE Least(S)
\* the first entry that is not valid base64, 0 if there is none
InvalidIndex(list) ==
    LET S == {k \in DOMAIN list : Invalid(list, k)}
    IN  IF S = {} THEN 0 ELSE Least(S)

\* the MIME type the claim names: the supplied one when given (a value
\* other than None and the empty string), otherwise the one inferred from
\* the decoded bytes, otherwise application/octet-stream
ClaimedMime(img) ==
    LET inferred == imghdr_what(b64decode(img.image_b64).head)
    IN  IF img.mime # None /\ img.mime # "" THEN <<img.mime>>
        ELSE IF inferred # None THEN <<"image/", inferred>>
        ELSE <<"application/octet-stream">>
ClaimedBlock(img) ==
    [type |-> "input_image",
     image_url |-> [scheme |-> "data:", mime |-> ClaimedMime(img),
                    sep |-> ";base64,", data |-> img.image_b64]]
\* the content sequence the claim names
ClaimedContent(q) ==
    LET kept == SelectSeq(ImagesOf(q), NonBlank)
    IN  <<[type |-> "input_text", text |-> q.text]>>
        \o [i \in 1..Len(kept) |-> ClaimedBlock(kept[i])]

C1_Assembled(r) ==
    /\ Served(r, "infer")
    /\ ~InferGuardFails(app, has_key)
C1_Precondition(q) ==
    /\ \A k \in DOMAIN ImagesOf(q) : Harmless(ImagesOf(q)[k])
    /\ Cumulative(ImagesOf(q), Len(ImagesOf(q))) <= 32 * 1024 * 1024
(***************************************************************************)
(* C1: in the content assembly of POST /infer, when every non-empty entry  *)
(* is valid strict base64 and the cumulative decoded length is at most     *)
(* 32 MiB (the limit itself included), assembly succeeds and the content   *)
(* handed to the completion call is the text block followed by one image   *)
(* block per non-blank entry, in input order, each the data URL of the     *)
(* entry's own base64 string and its MIME type.                            *)
(***************************************************************************)
C1_AssemblyExact ==
    \A r \in Reqs :
        (C1_Assembled(r) /\ C1_Precondition(req[r])) =>
            /\ sent[r].made
            /\ sent[r].content = ClaimedContent(req[r])
            /\ response[r].status \notin {400, 413}
\* two entries, one of them blank, the other decoding to the limit exactly
C1_Witness ==
    \E r \in Reqs :
        /\ C1_Assembled(r) /\ C1_Precondition(req[r])
        /\ Len(ImagesOf(req[r])) = 2
        /\ total_bytes[r] = 32 * 1024 * 1024
        /\ Len(sent[r].content) = 2

C2_Rejected(r) ==
    /\ response[r].status = 413
    /\ ~sent[r].made
    /\ idx[r] = OverflowIndex(ImagesOf(req[r]))
(***************************************************************************)
(* C2 as stated: an image list whose cumulative decoded bytes exceed       *)
(* 32 MiB makes POST /infer fail with 413, with no completion call, at the *)
(* first image that pushes the total over the limit.                       *)
(***************************************************************************)
C2_AsStated ==
    \A r \in Reqs :
        (Served(r, "infer") /\ OverflowIndex(ImagesOf(req[r])) > 0) =>
            C2_Rejected(r)
(***************************************************************************)
(* C2 amended: the same, once the handler has its client, that is, in the  *)
(* gpt-proxy variant when the credential is configured (without it the     *)
(* request fails with 500 before any image is looked at) and always in the *)
(* src/main.py variant.                                                    *)
(***************************************************************************)
C2_TooLargeRejected ==
    \A r \in Reqs :
        (/\ Served(r, "infer")
         /\ OverflowIndex(ImagesOf(req[r])) > 0
         /\ (app = "gpt_proxy" => has_key)) =>
            C2_Rejected(r)
\* the first of two images is over the limit alone; the second is never
\* decoded
C2_Witness ==
    \E r \in Reqs :
        /\ Served(r, "infer")
        /\ Len(ImagesOf(req[r])) = 2
        /\ OverflowIndex(ImagesOf(req[r])) = 1
        /\ Invalid(ImagesOf(req[r]), 2)
        /\ response[r].status = 413

C3_Reached(list) ==
    /\ InvalidIndex(list) > 0
    /\ OverflowIndex(list) = 0
(***************************************************************************)
(* C3: an entry that is not blank and not valid strict base64 makes        *)
(* POST /infer fail with 400, not with the 500 of the generic exception    *)
(* clause, before any completion call.  Stated for a handler that has its  *)
(* client and for an entry the loop reaches (no entry before it pushes the *)
(* total over the limit).                                                  *)
(***************************************************************************)
C3_InvalidBase64Is400 ==
    \A r \in Reqs :
        (/\ Served(r, "infer")
         /\ ~InferGuardFails(app, has_key)
         /\ C3_Reached(ImagesOf(req[r]))) =>
            /\ response[r].status = 400
            /\ ~sent[r].made

(***************************************************************************)
(* Vocabulary of the properties about PDF text                             *)
(***************************************************************************)
\* the page yields text: a string with a character that is not whitespace
YieldsText(page) ==
    page.kind = "text" /\ \E i \in DOMAIN page.t : page.t[i].c \notin Whitespace
\* parsing fails
ParsingFails(pdf) ==
    pdf.reader_raises \/ \E i \in DOMAIN pdf.pages : pdf.pages[i] = PageRaise
\* the texts of the pages that yield text, in page order, joined by a blank
\* line and trimmed
ClaimedPdfText(pdf) ==
    LET kept == SelectSeq(pdf.pages, YieldsText)
    IN  Strip(Join(<<R("\n", 2)>>, [i \in 1..Len(kept) |-> kept[i].t]))
\* read_pdf_text has run on the upload of request r
Extracted(r) == req[r].kind = "summarize_pdf" /\ parsed[r]
\* s ends with the truncation marker
EndsWithMarker(s) ==
    /\ Len(s) >= Len(TRUNCATION_MARKER)
    /\ SubSeq(s, Len(s) - Len(TRUNCATION_MARKER) + 1, Len(s)) = TRUNCATION_MARKER

C4_Precondition(pdf) ==
    /\ ~ParsingFails(pdf)
    /\ ClaimedPdfText(pdf) # <<>>
    /\ StrLen(ClaimedPdfText(pdf)) < 120000
(***************************************************************************)
(* C4: for a PDF with extractable text under 120,000 characters,           *)
(* read_pdf_text returns the texts of the pages, in page order, skipping   *)
(* the pages that yield no text (None, empty or whitespace-only), joined   *)
(* by a blank line and trimmed, and appends no truncation marker.          *)
(***************************************************************************)
C4_ShortTextJoined ==
    \A r \in Reqs :
        (Extracted(r) /\ C4_Precondition(req[r].pdf)) =>
            /\ text[r] = ClaimedPdfText(req[r].pdf)
            /\ ~EndsWithMarker(text[r])
\* three pages, the first one padded (" b\n"), the middle one
\* whitespace-only: the result is "b\n" + "\n\n" + "b"
C4_Witness ==
    \E r \in Reqs :
        /\ Extracted(r) /\ C4_Precondition(req[r].pdf)
        /\ req[r].pdf.pages = <<PAGE_PADDED, PAGE_BLANK, PAGE_B>>
        /\ text[r] = <<R("b", 1), R("\n", 3), R("b", 1)>>

(***************************************************************************)
(* C5: for a PDF whose joined and trimmed text exceeds 120,000 characters, *)
(* read_pdf_text returns exactly its first 120,000 characters followed by  *)
(* the truncation marker; a text of exactly 120,000 characters is returned *)
(* unchanged.                                                              *)
(***************************************************************************)
C5_LongTextTruncated ==
    \A r \in Reqs :
        (Extracted(r) /\ ~ParsingFails(req[r].pdf)) =>
            LET full == ClaimedPdfText(req[r].pdf)
            IN  /\ StrLen(full) > 120000 =>
                    /\ StrLen(text[r]) = 120000 + StrLen(TRUNCATION_MARKER)
                    /\ Take(text[r], 120000) = Take(full, 120000)
                    /\ EndsWithMarker(text[r])
                /\ StrLen(full) = 120000 => text[r] = full
\* a text that starts with a short page and runs over the limit: the letter
\* of the first page is kept, the tail of the last page is cut
C5_Witness ==
    \E r \in Reqs :
        /\ Extracted(r) /\ ~ParsingFails(req[r].pdf)
        /\ StrLen(ClaimedPdfText(req[r].pdf)) = 120000 + 3
        /\ Head(text[r]) = R("b", 1)
        /\ EndsWithMarker(text[r])

C6_NoText(pdf) ==
    ParsingFails(pdf) \/ \A i \in DOMAIN pdf.pages : ~YieldsText(pdf.pages[i])
(***************************************************************************)
(* C6 as stated: for an upload that yields no extractable text (every page *)
(* empty or whitespace-only) or whose parsing fails, read_pdf_text returns *)
(* the empty string and POST /summarize_pdf responds with 400, without a   *)
(* completion call, whether or not a credential is configured.             *)
(***************************************************************************)
C6_AsStated ==
    \A r \in Reqs :
        (Served(r, "summarize_pdf") /\ C6_NoText(req[r].pdf)) =>
            /\ read_pdf_text(req[r].pdf) = <<>>
            /\ response[r].status = 400
            /\ ~sent[r].made
(***************************************************************************)
(* C6 amended: the same for an upload of at most 32 MiB; a larger one is   *)
(* answered with 413 before it is parsed.                                  *)
(***************************************************************************)
C6_NoTextIs400 ==
    \A r \in Reqs :
        (/\ Served(r, "summarize_pdf")
         /\ C6_NoText(req[r].pdf)
         /\ req[r].nbytes <= 32 * 1024 * 1024) =>
            /\ parsed[r] => text[r] = <<>>
            /\ response[r].status = 400
            /\ ~sent[r].made
\* a page raises while no credential is configured: the answer is the 400
\* of the empty text
C6_Witness ==
    \E r \in Reqs :
        /\ Served(r, "summarize_pdf")
        /\ ~has_key
        /\ parsed[r]
        /\ \E i \in DOMAIN req[r].pdf.pages : req[r].pdf.pages[i] = PageRaise
        /\ response[r] = NoTextError

C7_OkWithFalseFlag(r) ==
    /\ response[r].status = 200
    /\ response[r].body.status = "ok"
    /\ "has_openai_key" \in DOMAIN response[r].body
    /\ response[r].body.has_openai_key = FALSE
C8_ProviderFailed(r) == Done(r) /\ sent[r].made /\ ~outcome[r].ok
(***************************************************************************)
(* C8: a failure of the completion call in POST /infer or                  *)
(* POST /summarize_pdf is answered with a 500 whose message holds no more  *)
(* of the provider's error text than a short message (ShortMessageLen      *)
(* characters; the handlers cut nothing, so no other length would do).     *)
(***************************************************************************)
C8_ProviderErrorGeneric ==
    \A r \in Reqs :
        C8_ProviderFailed(r) =>
            /\ response[r].status = 500
            /\ StrLen(response[r].detail.exc) <= ShortMessageLen

C9_Result(resp, call) == [response |-> resp, sent |-> call]
C9_Call(c) == [made |-> TRUE, content |-> c]
C9_InferAlone(q, o) ==
    LET list == ImagesOf(q)
        over == OverflowIndex(list)
        bad == InvalidIndex(list)
    IN  IF app = "gpt_proxy" /\ ~has_key THEN C9_Result(NoKeyError, NotSent)
        ELSE IF over > 0 THEN C9_Result(TooMuchDataError(app), NotSent)
        ELSE IF bad > 0
             THEN IF \E i \in DOMAIN list[bad].image_b64 :
                        list[bad].image_b64[i].c \in NonAscii
                  THEN C9_Result(InferenceError(AsciiOnlyText), NotSent)
                  ELSE C9_Result(BadBase64Error(app), NotSent)
        ELSE C9_Result(IF o.ok THEN Ok(InferBody(app, o.text))
                               ELSE InferenceError(o.text),
                       C9_Call(ClaimedContent(q)))
C9_SummarizeAlone(q, o) ==
    IF q.content_type \notin {"application/pdf", "application/octet-stream"}
    THEN C9_Result(NotPdfError, NotSent)
    ELSE IF q.nbytes > 32 * 1024 * 1024 THEN C9_Result(PdfTooBigError, NotSent)
    ELSE IF C6_NoText(q.pdf) THEN C9_Result(NoTextError, NotSent)
    ELSE IF ~has_key THEN C9_Result(NoKeyError, NotSent)
    ELSE C9_Result(IF o.ok THEN Ok([summary |-> Strip(o.text)])
                           ELSE SummarizeError(o.text),
                   C9_Call(<<InputText(Prompt(read_pdf_text(q.pdf)))>>))
(***************************************************************************)
(* C9: requests are handled independently: whatever the interleaving of    *)
(* the requests in flight, the content a request hands to the completion   *)
(* call and the response it gets are those of the request handled on its   *)
(* own, a function of its payload, of the configuration (variant,          *)
(* credential) and of what the completion API did with its own call.       *)
(***************************************************************************)
C9_Independent ==
    \A r \in Reqs :
        /\ Served(r, "infer") =>
              C9_Result(response[r], sent[r]) = C9_InferAlone(req[r], outcome[r])
        /\ Served(r, "summarize_pdf") =>
              C9_Result(response[r], sent[r]) = C9_SummarizeAlone(req[r], outcome[r])
        /\ (req[r].kind = "infer" /\ pc[r] = "images") =>
              content[r] = SubSeq(ClaimedContent(req[r]), 1, Len(content[r]))
\* two requests with images, both answered after their completion calls,
\* whose decoded bytes are over the limit taken together
C9_Witness ==
    /\ \A r \in Reqs : Served(r, "infer") /\ sent[r].made
    /\ total_bytes[1] > 0
    /\ total_bytes[2] > 0
    /\ total_bytes[1] + total_bytes[2] > 32 * 1024 * 1024

C10_TypeOk(q) == q.content_type \in {"application/pdf", "application/octet-stream"}
C10_SizeOk(q) == q.nbytes <= 32 * 1024 * 1024
C10_TextOk(q) == read_pdf_text(q.pdf) # <<>>
(***************************************************************************)
(* C10: POST /summarize_pdf checks in a fixed order and the first check    *)
(* that fails decides the response: content type (400, body not read),     *)
(* size (413, nothing parsed), empty text (400), credential (500),         *)
(* provider failure (500).  A missing credential never masks a 400 or a    *)
(* 413, and the completion call is made only when the four checks pass.    *)
(***************************************************************************)
C10_FixedOrder ==
    \A r \in Reqs :
        req[r].kind = "summarize_pdf" =>
            LET q == req[r]
            IN  /\ body_read[r] => C10_TypeOk(q)
                /\ parsed[r] => C10_TypeOk(q) /\ C10_SizeOk(q)
                /\ sent[r].made =>
                      C10_TypeOk(q) /\ C10_SizeOk(q) /\ C10_TextOk(q) /\ has_key
                /\ Served(r, "summarize_pdf") =>
                      IF ~C10_TypeOk(q)
                      THEN response[r] = NotPdfError /\ ~body_read[r]
                      ELSE IF ~C10_SizeOk(q)
                      THEN response[r] = PdfTooBigError /\ ~parsed[r]
                      ELSE IF ~C10_TextOk(q)
                      THEN response[r] = NoTextError /\ ~sent[r].made
                      ELSE IF ~has_key
                      THEN response[r] = NoKeyError /\ ~sent[r].made
                      ELSE /\ sent[r].made
                           /\ response[r].status = IF outcome[r].ok THEN 200 ELSE 500
\* an upload over the limit while no credential is configured: 413
C10_Witness ==
    \E r \in Reqs :
        /\ Served(r, "summarize_pdf")
        /\ ~has_key
        /\ req[r].content_type = "application/octet-stream"
        /\ response[r].status = 413

====
